---- MODULE Spec2Model ----
(***************************************************************************)
(* Model of the Covasim web application RPCs (covasim/webapp/cova_app.py): *)
(* get_defaults, upload_pars and run_sim.                                  *)
(*                                                                         *)
(* Numbers are fixed-point, in thousandths: the Python literal 0.015 is    *)
(* F(0, 15), 1e6 is F(1000000, 0).  A Python value is a record [t, v]:     *)
(* t = "num" (v in thousandths), "none" (None), "str" (v = 0 the empty     *)
(* string, v = 1 a non-numeric string), "bool", "absent" (the dictionary   *)
(* has no such field).                                                     *)
(***************************************************************************)
EXTENDS Integers, Sequences, FiniteSets, TLC

VARIABLES pc, request, sim_pars, epi_pars, pars, err, E1, E3, sim, output,
          raised, pass, prev

vars == << pc, request, sim_pars, epi_pars, pars, err, E1, E3, sim, output,
           raised, pass, prev >>

\* ------------------------------------------------------------------ bounds
MaxEntries == 2
MaxPasses == 2

\* ------------------------------------------------------------ Python values
F(whole, thousandths) == whole * 1000 + thousandths

Num(x) == [t |-> "num", v |-> x]
None == [t |-> "none", v |-> 0]
Absent == [t |-> "absent", v |-> 0]
EmptyStr == [t |-> "str", v |-> 0]
BadStr == [t |-> "str", v |-> 1]
Bool(b) == [t |-> "bool", v |-> IF b THEN 1 ELSE 0]

\* Python truthiness: None, '', 0, 0.0 and False are falsy
Truthy(x) == CASE x.t = "none" -> FALSE
               [] x.t = "num" -> x.v # 0
               [] x.t = "str" -> x.v # 0
               [] x.t = "bool" -> x.v # 0
               [] OTHER -> TRUE

\* int(x) truncates towards zero
ToInt(x) == IF x >= 0 THEN x \div 1000 ELSE 0 - ((0 - x) \div 1000)

\* pylab.median of three numbers: the middle one
Median3(a, b, c) ==
    IF (a <= b /\ b <= c) \/ (c <= b /\ b <= a) THEN b
    ELSE IF (b <= a /\ a <= c) \/ (c <= a /\ a <= b) THEN a
    ELSE c

\* exceptions
NoExc == [type |-> "none", arg |-> ""]
Exc(type, arg) == [type |-> type, arg |-> arg]

\* -------------------------------------------------------------- get_defaults
max_pop == F(10000, 0)
max_days == F(90, 0)

RegionNames == {"Example", "Seattle"}

regions_bad ==
    [ scale       |-> [Example |-> F(1, 0),    Seattle |-> F(25, 0)],
      n           |-> [Example |-> F(2000, 0), Seattle |-> F(20000, 0)],
      n_days      |-> [Example |-> F(60, 0),   Seattle |-> F(45, 0)],
      n_infected  |-> [Example |-> F(10, 0),   Seattle |-> F(4, 0)],
      interv_days |-> [Example |-> F(20, 0),   Seattle |-> F(20, 0)],
      interv_effs |-> [Example |-> F(0, 500),  Seattle |-> F(0, 0)] ]

regions ==
    [ scale       |-> [Example |-> F(1, 0),    Seattle |-> F(25, 0)],
      n           |-> [Example |-> F(2000, 0), Seattle |-> F(10000, 0)],
      n_days      |-> [Example |-> F(60, 0),   Seattle |-> F(45, 0)],
      n_infected  |-> [Example |-> F(10, 0),   Seattle |-> F(4, 0)],
      interv_days |-> [Example |-> F(20, 0),   Seattle |-> F(20, 0)],
      interv_effs |-> [Example |-> F(0, 500),  Seattle |-> F(0, 0)] ]

ParSpec(b, lo, hi, nm) == [best |-> b, min |-> lo, max |-> hi, name |-> nm]

base_sim_pars ==
    [ scale       |-> ParSpec(F(1, 0),    F(1, 0), F(1000000, 0), "Population scale factor"),
      n           |-> ParSpec(F(5000, 0), F(1, 0), max_pop,       "Population size"),
      n_infected  |-> ParSpec(F(10, 0),   F(1, 0), max_pop,       "Initial infections"),
      n_days      |-> ParSpec(F(90, 0),   F(1, 0), max_days,      "Number of days to simulate"),
      interv_days |-> ParSpec(F(20, 0),   F(0, 0), max_days,      "Intervention start day"),
      interv_effs |-> ParSpec(F(0, 900),  F(0, 0), F(1, 0),       "Intervention effectiveness"),
      seed        |-> ParSpec(F(1, 0),    F(1, 0), F(100, 0),     "Random seed") ]

base_epi_pars ==
    [ beta        |-> ParSpec(F(0, 15), F(0, 0), F(0, 200), "Beta (infectiousness)"),
      contacts    |-> ParSpec(F(20, 0), F(0, 0), F(50, 0),  "Number of contacts"),
      serial      |-> ParSpec(F(4, 0),  F(1, 0), F(30, 0),  "Serial interval (days)"),
      incub       |-> ParSpec(F(5, 0),  F(1, 0), F(30, 0),  "Incubation period (days)"),
      dur         |-> ParSpec(F(8, 0),  F(1, 0), F(30, 0),  "Infection duration (days)"),
      timetodie   |-> ParSpec(F(22, 0), F(1, 0), F(60, 0),  "Time until death (days)"),
      default_cfr |-> ParSpec(F(0, 20), F(0, 0), F(1, 0),   "Case fatality rate") ]

\* {**a, **b}
Merge(a, b) == [k \in DOMAIN a \cup DOMAIN b |-> IF k \in DOMAIN b THEN b[k] ELSE a[k]]

\* the region argument: None, or a region name
RegionNone == [isNone |-> TRUE, name |-> ""]
Region(nm) == [isNone |-> FALSE, name |-> nm]

\* get_defaults(region, merge): exc is the exception raised (NoExc when it
\* returns), value the returned catalog
get_defaults(region, merge) ==
    LET r == IF region.isNone THEN "Example" ELSE region.name
    IN  IF r \notin RegionNames
        THEN [exc |-> Exc("KeyError", r), value |-> << >>]
        ELSE LET sp == [k \in DOMAIN base_sim_pars |->
                          IF k \in DOMAIN regions
                          THEN [base_sim_pars[k] EXCEPT !.best = regions[k][r]]
                          ELSE base_sim_pars[k]]
             IN  [exc |-> NoExc,
                  value |-> IF merge THEN Merge(sp, base_epi_pars)
                            ELSE [sim_pars |-> sp, epi_pars |-> base_epi_pars]]

\* --------------------------------------------------------------- upload_pars
\* the document sc.loadjson produced: its Python type and, for a dict, its
\* top-level keys
upload_pars_bad(parameters) ==
    IF parameters.type # "dict"
    THEN [exc |-> Exc("TypeError", parameters.type), value |-> parameters]
    ELSE IF "sim_pars" \notin parameters.keys /\ "epi_pars" \notin parameters.keys
    THEN [exc |-> Exc("KeyError", "sim_pars epi_pars"), value |-> parameters]
    ELSE [exc |-> NoExc, value |-> parameters]

upload_pars(parameters) ==
    IF parameters.type # "dict"
    THEN [exc |-> Exc("TypeError", parameters.type), value |-> parameters]
    ELSE IF "sim_pars" \notin parameters.keys \/ "epi_pars" \notin parameters.keys
    THEN [exc |-> Exc("KeyError", "sim_pars epi_pars"), value |-> parameters]
    ELSE [exc |-> NoExc, value |-> parameters]

\* ------------------------------------------------------------------- run_sim
\* A parameter group as submitted: None, or an ordered dict of entries; only
\* the entry's 'best' field is read or written by run_sim.
NoGroup == [present |-> FALSE, items |-> << >>]
Group(items) == [present |-> TRUE, items |-> items]

Keys(g) == {g.items[i].key : i \in 1..Len(g.items)}
Index(g, key) == CHOOSE i \in 1..Len(g.items) : g.items[i].key = key
Get(g, key) == g.items[Index(g, key)]
\* g[key]['best'] = val
SetBest(g, key, val) == [g EXCEPT !.items[Index(g, key)].best = val]

\* {**sim_pars, **epi_pars}.items(): the keys of sim_pars in their order, then
\* the keys only epi_pars has; a key of both takes the entry of epi_pars
MergedItems(s, e) ==
    LET fromSim == [i \in 1..Len(s.items) |->
                      IF s.items[i].key \in Keys(e) THEN Get(e, s.items[i].key)
                      ELSE s.items[i]]
    IN  fromSim \o SelectSeq(e.items, LAMBDA it : it.key \notin Keys(s))

\* pars[key] = val
SetItem(p, key, val) == [k \in DOMAIN p \cup {key} |-> IF k = key THEN val ELSE p[k]]

\* the body of the for loop, from the first of the remaining items on; stops
\* at the first exception, which the enclosing try catches
RECURSIVE ReconcileLoop(_, _, _, _, _)
ReconcileLoop(items, defaults, p, s, e) ==
    IF items = << >> THEN [pars |-> p, sim_pars |-> s, epi_pars |-> e, exc |-> NoExc]
    ELSE LET key == Head(items).key
             entry == Head(items)
             stop(x) == [pars |-> p, sim_pars |-> s, epi_pars |-> e, exc |-> x]
         IN  IF key \notin DOMAIN defaults THEN stop(Exc("KeyError", key))
             ELSE IF entry.best.t = "absent" THEN stop(Exc("KeyError", "best"))
             ELSE IF Truthy(entry.best) /\ entry.best.t = "str" THEN stop(Exc("ValueError", "could not convert string to float"))
             ELSE LET minval == defaults[key].min
                      maxval == defaults[key].max
                      val == IF Truthy(entry.best)
                             THEN Num(Median3(entry.best.v, minval, maxval))
                             ELSE None
                      p2 == SetItem(p, key, val)
                  IN  IF key \in Keys(s)
                      THEN ReconcileLoop(Tail(items), defaults, p2, SetBest(s, key, val), e)
                      ELSE ReconcileLoop(Tail(items), defaults, p2, s, SetBest(e, key, val))

\* the try block of run_sim
Reconcile(s, e, verbose) ==
    LET defaults == get_defaults(RegionNone, TRUE).value
        p0 == [k \in {"verbose"} |-> Bool(verbose)]
    IN  IF ~s.present \/ ~e.present
        THEN [pars |-> p0, sim_pars |-> s, epi_pars |-> e, exc |-> Exc("TypeError", "NoneType")]
        ELSE ReconcileLoop(MergedItems(s, e), defaults, p0, s, e)

\* err += text
AppendErr_overwrite(e, prefix, x) == << [prefix |-> prefix, exc |-> x] >>

AppendErr(e, prefix, x) == e \o << [prefix |-> prefix, exc |-> x] >>

\* The simulation engine (covasim.Sim), as run_sim uses it: the parameters it
\* was given, the set_seed calls it received, the number of run calls and
\* the results table.
NoResults == [present |-> FALSE, npts |-> 0, cum_exposed |-> 0, cum_deaths |-> 0]
FullResults == [present |-> TRUE, npts |-> 3, cum_exposed |-> F(12, 500), cum_deaths |-> F(1, 501)]
PartialResults == [present |-> TRUE, npts |-> 1, cum_exposed |-> F(0, 0), cum_deaths |-> F(0, 0)]

NoSim == [created |-> FALSE, pars |-> << >>, seeds |-> << >>, runs |-> 0, results |-> NoResults]

\* what sim.run(do_plot=False) can do: succeed, or raise leaving a results
\* table that is initialised or absent
RunOutcomes ==
    { [exc |-> NoExc, results |-> FullResults],
      [exc |-> Exc("RuntimeError", "engine"), results |-> PartialResults],
      [exc |-> Exc("RuntimeError", "engine"), results |-> NoResults] }

\* cv.to_plot: the metric groups, each a title and its result keys
to_plot == << [title |-> "Total counts", keys |-> << "cum_exposed", "cum_deaths" >>],
              [title |-> "Daily counts", keys |-> << "infections", "deaths" >>] >>

\* round(x): to the nearest integer, halves to the even one (x >= 0)
Round(x) ==
    LET q == x \div 1000
        r == x % 1000
    IN  IF r < 500 THEN q
        ELSE IF r > 500 THEN q + 1
        ELSE IF q % 2 = 0 THEN q ELSE q + 1

\* the argument of the sim.set_seed call
SeedCall_random(p) == [random |-> TRUE, value |-> 0]

SeedCall(p) ==
    IF p["seed"] # None
    THEN [random |-> FALSE, value |-> ToInt(p["seed"].v)]
    ELSE [random |-> TRUE, value |-> 0]

\* the RunResult
Output(e, s, ep, engine) ==
    [ err      |-> e,
      sim_pars |-> s,
      epi_pars |-> ep,
      graphs   |-> [i \in 1..Len(to_plot) |-> [json |-> to_plot[i], id |-> i]],
      files    |-> [xlsx |-> [filename |-> "COVASim_results.xlsx", content |-> "data:xlsx"],
                    json |-> [filename |-> "COVASim_results.txt", content |-> "data:text"]],
      summary  |-> [days   |-> engine.results.npts - 1,
                    cases  |-> Round(engine.results.cum_exposed),
                    deaths |-> Round(engine.results.cum_deaths)] ]

NoOutput == [none |-> TRUE]

\* ------------------------------------------------------------------- inputs
ReqKeys == {"seed", "interv_days", "beta", "foo"}
BestVals == {Absent, None, BadStr, Num(F(0, 0) - F(1, 0)), Num(F(0, 0)), Num(F(1, 500)), Num(F(200, 0))}
Entries == [key : ReqKeys, best : BestVals]

DistinctKeys(items) == \A i, j \in 1..Len(items) : items[i].key = items[j].key => i = j

ItemSeqs(n) == {items \in UNION {[1..m -> Entries] : m \in 0..n} : DistinctKeys(items)}

\* the groups a client can submit with at most n entries: None, or a dict
GroupsUpTo(n) == {NoGroup} \cup {Group(items) : items \in ItemSeqs(n)}

RegionArgs == {RegionNone, Region("Example"), Region("Seattle"), Region("Wuhan")}

Documents ==
    {[type |-> "dict", keys |-> ks] : ks \in SUBSET {"sim_pars", "epi_pars", "extra"}}
    \cup {[type |-> ty, keys |-> {}] : ty \in {"list", "str"}}

\* ------------------------------------------------------------------ actions
Init ==
    /\ pc = "idle"
    /\ request = [op |-> "none"]
    /\ sim_pars = NoGroup
    /\ epi_pars = NoGroup
    /\ pars = << >>
    /\ err = << >>
    /\ E1 = NoExc
    /\ E3 = NoExc
    /\ sim = NoSim
    /\ output = NoOutput
    /\ raised = NoExc
    /\ pass = 0
    /\ prev = << >>

\* a get_defaults call
CallGetDefaults ==
    /\ pc = "idle"
    /\ \E region \in RegionArgs, merge \in BOOLEAN :
          LET r == get_defaults(region, merge)
          IN  /\ request' = [op |-> "get_defaults", region |-> region, merge |-> merge]
              /\ raised' = r.exc
              /\ output' = IF r.exc = NoExc THEN r.value ELSE NoOutput
              /\ pc' = IF r.exc = NoExc THEN "done" ELSE "raised"
    /\ UNCHANGED << sim_pars, epi_pars, pars, err, E1, E3, sim, pass, prev >>

\* an upload_pars call
CallUploadPars ==
    /\ pc = "idle"
    /\ \E parameters \in Documents :
          LET r == upload_pars(parameters)
          IN  /\ request' = [op |-> "upload_pars", parameters |-> parameters]
              /\ raised' = r.exc
              /\ output' = IF r.exc = NoExc THEN r.value ELSE NoOutput
              /\ pc' = IF r.exc = NoExc THEN "done" ELSE "raised"
    /\ UNCHANGED << sim_pars, epi_pars, pars, err, E1, E3, sim, pass, prev >>

\* run_sim up to the end of its first try statement
RunSimReconcile(s, e, verbose) ==
    LET r == Reconcile(s, e, verbose)
    IN  /\ request' = [op |-> "run_sim", sim_pars |-> s, epi_pars |-> e, verbose |-> verbose]
        /\ pars' = r.pars
        /\ sim_pars' = r.sim_pars
        /\ epi_pars' = r.epi_pars
        /\ E1' = r.exc
        /\ err' = IF r.exc # NoExc THEN AppendErr(<< >>, "Parameter conversion failed! ", r.exc)
                  ELSE << >>
        /\ E3' = NoExc
        /\ sim' = NoSim
        /\ output' = NoOutput
        /\ raised' = NoExc
        /\ pc' = "reconciled"

\* a run_sim call from a client
CallRunSim ==
    /\ pc = "idle"
    /\ \E s \in GroupsUpTo(MaxEntries), verbose \in BOOLEAN :
          \E e \in GroupsUpTo(MaxEntries - Len(s.items)) : RunSimReconcile(s, e, verbose)
    /\ pass' = 1
    /\ UNCHANGED prev

\* the client submits the groups of the RunResult it received again
Resubmit ==
    /\ pc = "done"
    /\ request.op = "run_sim"
    /\ pass < MaxPasses
    /\ RunSimReconcile(output.sim_pars, output.epi_pars, request.verbose)
    /\ pass' = pass + 1
    /\ prev' = pars

\* run_sim: the engine is created, given the parameters and seeded
SeedEngine ==
    /\ pc = "reconciled"
    /\ LET created == [NoSim EXCEPT !.created = TRUE,
                                    !.pars = SetItem(pars, "cfr_by_age", Bool(FALSE))]
       IN  IF "seed" \notin DOMAIN pars
           THEN /\ sim' = created
                /\ raised' = Exc("KeyError", "seed")
                /\ pc' = "raised"
           ELSE /\ sim' = [created EXCEPT !.seeds = Append(@, SeedCall(pars))]
                /\ raised' = raised
                /\ pc' = "seeded"
    /\ UNCHANGED << request, sim_pars, epi_pars, pars, err, E1, E3, output, pass, prev >>

\* run_sim: the engine run, any exception of which is caught
RunEngine ==
    /\ pc = "seeded"
    /\ \E o \in RunOutcomes :
          /\ sim' = [sim EXCEPT !.runs = @ + 1, !.results = o.results]
          /\ E3' = o.exc
          /\ err' = IF o.exc # NoExc THEN AppendErr(err, "Sim run failed! ", o.exc) ELSE err
    /\ pc' = "ran"
    /\ UNCHANGED << request, sim_pars, epi_pars, pars, E1, output, raised, pass, prev >>

\* run_sim: the result is assembled from the engine's results and returned
Assemble ==
    /\ pc = "ran"
    /\ IF ~sim.results.present
       THEN /\ raised' = Exc("KeyError", "results")
            /\ output' = output
            /\ pc' = "raised"
       ELSE /\ output' = Output(err, sim_pars, epi_pars, sim)
            /\ raised' = raised
            /\ pc' = "done"
    /\ UNCHANGED << request, sim_pars, epi_pars, pars, err, E1, E3, sim, pass, prev >>

Next ==
    \/ CallGetDefaults
    \/ CallUploadPars
    \/ CallRunSim
    \/ Resubmit
    \/ SeedEngine
    \/ RunEngine
    \/ Assemble

Spec == Init /\ [][Next]_vars

\* ------------------------------------------------------------------- claims
IsRunSim == request.op = "run_sim"
Catalog == get_defaults(RegionNone, TRUE).value
ConvPrefix == "Parameter conversion failed! "
RunPrefix == "Sim run failed! "

\* the keys of the submitted groups
SubmittedKeys == Keys(request.sim_pars) \cup Keys(request.epi_pars)
\* the entry run_sim rewrites for a key: the one of sim_pars if it has the key
Rewritten(k) == IF k \in Keys(sim_pars) THEN Get(sim_pars, k) ELSE Get(epi_pars, k)
InBounds(entry) == entry.min <= entry.best /\ entry.best <= entry.max
Clamp(v, lo, hi) == IF v < lo THEN lo ELSE IF v > hi THEN hi ELSE v

\* C1: every run_sim call returns a RunResult with the fields err, sim_pars,
\* epi_pars, graphs, files and summary; none ends by raising to the caller.
C1_NeverRaises ==
    IsRunSim =>
        /\ pc # "raised"
        /\ raised = NoExc
        /\ pc = "done" =>
              DOMAIN output = {"err", "sim_pars", "epi_pars", "graphs", "files", "summary"}

\* C2: when the lookup of one submitted key fails (the key is not in the
\* catalog) and every other entry is well formed, every other submitted key is
\* still reconciled (it is in the engine parameters and its 'best' is
\* rewritten to that value), and err is non-empty and names the failing key.
C2_LookupFailureDoesNotStop ==
    ( /\ IsRunSim
      /\ pc = "reconciled"
      /\ request.sim_pars.present /\ request.epi_pars.present
      /\ E1.type = "KeyError" /\ E1.arg \in SubmittedKeys \ DOMAIN Catalog
      /\ \A it \in {request.sim_pars.items[i] : i \in 1..Len(request.sim_pars.items)}
                  \cup {request.epi_pars.items[i] : i \in 1..Len(request.epi_pars.items)} :
            it.key # E1.arg => it.key \in DOMAIN Catalog /\ it.best.t \in {"num", "none"} )
    =>
    ( /\ \A k \in SubmittedKeys \ {E1.arg} :
            k \in DOMAIN pars /\ Rewritten(k).best = pars[k]
      /\ err # << >>
      /\ \E i \in 1..Len(err) : err[i].exc.arg = E1.arg )

\* C3: clamp law: for every submitted catalog key with a numeric 'best' v and
\* bounds [lo, hi], the reconciled value is v if lo <= v <= hi, lo if v < lo
\* and hi if v > hi (v = 0 and v equal to a bound included).
C3_ClampLaw ==
    (IsRunSim /\ pc = "reconciled" /\ E1 = NoExc) =>
        LET items == MergedItems(request.sim_pars, request.epi_pars)
        IN  \A i \in 1..Len(items) :
              items[i].best.t = "num" =>
                pars[items[i].key] =
                  Num(Clamp(items[i].best.v, Catalog[items[i].key].min, Catalog[items[i].key].max))

\* C4: reconciliation is idempotent: reconciling the groups returned by one
\* reconciliation gives every key the value the first pass gave it.
C4_Idempotent ==
    (IsRunSim /\ pass >= 2 /\ pc = "reconciled") =>
        \A k \in DOMAIN prev : k \in DOMAIN pars /\ pars[k] = prev[k]

\* C5: get_defaults with a region name that is not in the region table does
\* not fail: it returns the catalog with the 'best' values of region
\* 'Example' for the six region-controlled keys, merged or not.
C5_UnknownRegionFallsBack ==
    ( /\ request.op = "get_defaults"
      /\ ~request.region.isNone
      /\ request.region.name \notin RegionNames )
    =>
    ( /\ pc = "done"
      /\ raised = NoExc
      /\ LET sp == IF request.merge THEN output ELSE output.sim_pars
         IN  \A k \in DOMAIN regions : sp[k].best = regions[k]["Example"] )

\* C6: min <= best <= max holds for every entry of the base catalog and for
\* every entry of both groups returned by get_defaults for every region of
\* the region table.
C6_BestWithinBounds ==
    /\ \A k \in DOMAIN base_sim_pars : InBounds(base_sim_pars[k])
    /\ \A k \in DOMAIN base_epi_pars : InBounds(base_epi_pars[k])
    /\ (request.op = "get_defaults" /\ pc = "done") =>
          IF request.merge
          THEN \A k \in DOMAIN output : InBounds(output[k])
          ELSE /\ \A k \in DOMAIN output.sim_pars : InBounds(output.sim_pars[k])
               /\ \A k \in DOMAIN output.epi_pars : InBounds(output.epi_pars[k])

C6_Witness ==
    /\ request.op = "get_defaults"
    /\ pc = "done"
    /\ request.region = Region("Seattle")
    /\ ~request.merge
    /\ output.sim_pars["n"].best = F(10000, 0)

\* C7 (as stated): upload_pars returns the document only when it is a mapping
\* whose top-level keys are exactly 'sim_pars' and 'epi_pars'; every other
\* shape fails with a validation error.
C7_ExactlyTwoKeys ==
    request.op = "upload_pars" =>
        ( pc = "done" <=>
            ( request.parameters.type = "dict"
              /\ request.parameters.keys = {"sim_pars", "epi_pars"} ) )

\* C7 (amended): upload_pars returns the document exactly when it is a
\* mapping that has both keys 'sim_pars' and 'epi_pars' (further keys are
\* accepted); a non-mapping fails with a TypeError and a mapping that lacks
\* one of the two keys with a KeyError.
C7_BothKeysRequired ==
    request.op = "upload_pars" =>
        LET doc == request.parameters
            ok == doc.type = "dict" /\ {"sim_pars", "epi_pars"} \subseteq doc.keys
        IN  /\ pc = "done" <=> ok
            /\ pc = "done" => output = doc /\ raised = NoExc
            /\ ~ok => /\ pc = "raised"
                      /\ raised.type = IF doc.type = "dict" THEN "KeyError" ELSE "TypeError"

C7_Witness ==
    /\ request.op = "upload_pars"
    /\ request.parameters.type = "dict"
    /\ request.parameters.keys = {"sim_pars"}
    /\ pc = "raised"
    /\ raised.type = "KeyError"

\* C8: in every RunResult, for every key of either submitted group, the
\* 'best' of that key's entry in the returned group is the value passed to
\* the engine for that key, also when the key is in both groups.
C8_ReturnedBestIsUsed ==
    (IsRunSim /\ pc = "done") =>
        /\ \A k \in Keys(request.sim_pars) :
              k \in DOMAIN sim.pars /\ Get(output.sim_pars, k).best = sim.pars[k]
        /\ \A k \in Keys(request.epi_pars) :
              k \in DOMAIN sim.pars /\ Get(output.epi_pars, k).best = sim.pars[k]

\* C9: in every run_sim call that returns, err is the reconciliation error
\* text (if reconciliation failed) followed by the engine error text (if the
\* run raised), the result having been assembled after the caught engine
\* failure; so err is empty exactly when neither failed.
C9_ErrAccumulates ==
    (IsRunSim /\ pc = "done") =>
        /\ output.err =
              (IF E1 # NoExc THEN << [prefix |-> ConvPrefix, exc |-> E1] >> ELSE << >>)
              \o (IF E3 # NoExc THEN << [prefix |-> RunPrefix, exc |-> E3] >> ELSE << >>)
        /\ output.err = << >> <=> (E1 = NoExc /\ E3 = NoExc)
        /\ sim.runs = 1

C9_Witness ==
    /\ IsRunSim
    /\ pc = "done"
    /\ E1 # NoExc
    /\ E3 # NoExc
    /\ Len(output.err) = 2

====
